---- MODULE Spec2Model ----
\* Model of train.py (LocalLLM.API): one invocation of the LoRA fine-tuning
\* script, from argument parsing to process exit, against a filesystem that
\* may hold the leftovers of earlier invocations.
\*
\* Strings the script computes on (model names, directory entries) are
\* sequences of one-character strings, so that strip/lower/replace/split/int
\* are computed rather than assumed.  Strings it only carries around (paths,
\* messages) are plain TLA+ strings.
EXTENDS Integers, Sequences, FiniteSets, TLC

\* ---------------------------------------------------------------- bounds
\* Longest run of whitespace put in front of / behind a model name.
MaxPad == 1
\* Largest number of lines error.txt holds before the run.
MaxErrLines == 1

\* ------------------------------------------------------- Python builtins
None == "None"

\* str.isspace() characters that appear in the model's alphabet.
Whitespace == {" ", "\t", "\n"}

Digits == <<"0","1","2","3","4","5","6","7","8","9">>
UpperChars == <<"A","B","C","D","E","F","G","H","I","J","K","L","M","N","O","P","Q","R","S","T","U","V","W","X","Y","Z">>
LowerChars == <<"a","b","c","d","e","f","g","h","i","j","k","l","m","n","o","p","q","r","s","t","u","v","w","x","y","z">>

IndexIn(c, t) == CHOOSE i \in 1..Len(t) : t[i] = c
Occurs(c, t) == \E i \in 1..Len(t) : t[i] = c

\* str.strip(): drop leading and trailing whitespace.
RECURSIVE LStrip(_)
LStrip(s) == IF s # <<>> /\ Head(s) \in Whitespace THEN LStrip(Tail(s)) ELSE s
RECURSIVE RStrip(_)
RStrip(s) ==
    IF s # <<>> /\ s[Len(s)] \in Whitespace THEN RStrip(SubSeq(s, 1, Len(s) - 1)) ELSE s
PyStrip(s) == RStrip(LStrip(s))

\* str.lower() on the ASCII letters.
LowerChar(c) == IF Occurs(c, UpperChars) THEN LowerChars[IndexIn(c, UpperChars)] ELSE c
UpperChar(c) == IF Occurs(c, LowerChars) THEN UpperChars[IndexIn(c, LowerChars)] ELSE c
PyLower(s) == [i \in 1..Len(s) |-> LowerChar(s[i])]
PyUpper(s) == [i \in 1..Len(s) |-> UpperChar(s[i])]

\* str.replace(" ", ""): drop every U+0020, and only that character.
RECURSIVE RemoveSpaces(_)
RemoveSpaces(s) ==
    IF s = <<>> THEN <<>>
    ELSE IF Head(s) = " " THEN RemoveSpaces(Tail(s))
    ELSE <<Head(s)>> \o RemoveSpaces(Tail(s))

\* s.startswith(p)
StartsWith(s, p) == Len(s) >= Len(p) /\ SubSeq(s, 1, Len(p)) = p

\* s.split("-")[-1]: what follows the last "-" (all of s when there is none).
RECURSIVE LastField(_)
LastField(s) ==
    IF ~Occurs("-", s) THEN s
    ELSE LastField(SubSeq(s, IndexIn("-", s) + 1, Len(s)))

\* int(s), for the alphabet of the model: surrounding whitespace is dropped,
\* one sign is allowed, and at least one decimal digit must follow.
\* (Underscore grouping and non-ASCII digits are outside the alphabet.)
IntBody(s) ==
    LET t == PyStrip(s)
    IN  IF t # <<>> /\ Head(t) \in {"+", "-"} THEN Tail(t) ELSE t
IntParses(s) ==
    /\ IntBody(s) # <<>>
    /\ \A i \in 1..Len(IntBody(s)) : Occurs(IntBody(s)[i], Digits)
RECURSIVE DigitsValue(_)
DigitsValue(d) ==
    IF d = <<>> THEN 0
    ELSE 10 * DigitsValue(SubSeq(d, 1, Len(d) - 1)) + (IndexIn(d[Len(d)], Digits) - 1)
IntSign(s) == IF PyStrip(s) # <<>> /\ Head(PyStrip(s)) = "-" THEN -1 ELSE 1
PyInt(s) == IntSign(s) * DigitsValue(IntBody(s))

\* --------------------------------------------- normalize_base_model_id
Key_llama3_8b == <<"l","l","a","m","a","3",":","8","b">>
Key_llama3_instruct == <<"l","l","a","m","a","3",":","i","n","s","t","r","u","c","t">>
Key_llama32_1b == <<"l","l","a","m","a","3",".","2",":","1","b","-","i","n","s","t","r","u","c","t">>
Key_llama32_3b == <<"l","l","a","m","a","3",".","2",":","3","b","-","i","n","s","t","r","u","c","t">>
Key_qwen25_05b == <<"q","w","e","n","2",".","5",":","0",".","5","b">>
Key_qwen25_15b == <<"q","w","e","n","2",".","5",":","1",".","5","b">>
Repo_Llama3_8B == <<"m","e","t","a","-","l","l","a","m","a","/","M","e","t","a","-","L","l","a","m","a","-","3","-","8","B","-","I","n","s","t","r","u","c","t">>
Repo_Llama32_1B == <<"m","e","t","a","-","l","l","a","m","a","/","L","l","a","m","a","-","3",".","2","-","1","B","-","I","n","s","t","r","u","c","t">>
Repo_Llama32_3B == <<"m","e","t","a","-","l","l","a","m","a","/","L","l","a","m","a","-","3",".","2","-","3","B","-","I","n","s","t","r","u","c","t">>
Repo_Qwen25_05B == <<"Q","w","e","n","/","Q","w","e","n","2",".","5","-","0",".","5","B","-","I","n","s","t","r","u","c","t">>
Repo_Qwen25_15B == <<"Q","w","e","n","/","Q","w","e","n","2",".","5","-","1",".","5","B","-","I","n","s","t","r","u","c","t">>

\* The alias table, as (key, value) pairs.
aliases ==
    { <<Key_llama3_8b, Repo_Llama3_8B>>,
      <<Key_llama3_instruct, Repo_Llama3_8B>>,
      <<Key_llama32_1b, Repo_Llama32_1B>>,
      <<Key_llama32_3b, Repo_Llama32_3B>>,
      <<Key_qwen25_05b, Repo_Qwen25_05B>>,
      <<Key_qwen25_15b, Repo_Qwen25_15B>> }
AliasKeys == {a[1] : a \in aliases}
AliasGet(key, default) ==
    IF key \in AliasKeys THEN (CHOOSE a \in aliases : a[1] = key)[2] ELSE default

\* Mutant: the pass-through returns the lookup key instead of the stripped input.
normalize_returns_key(s) ==
    IF s = <<>> THEN s
    ELSE LET key == RemoveSpaces(PyLower(PyStrip(s)))
         IN  AliasGet(key, key)

normalize_base_model_id(s) ==
    IF s = <<>> THEN s
    ELSE LET key == RemoveSpaces(PyLower(PyStrip(s)))
         IN  AliasGet(key, PyStrip(s))

\* ------------------------------------------------- checkpoint selection
CheckpointPrefix == <<"c","h","e","c","k","p","o","i","n","t","-">>
Ck(suffix) == CheckpointPrefix \o suffix

Ck_5 == Ck(<<"5">>)
Ck_05 == Ck(<<"0","5">>)
Ck_20 == Ck(<<"2","0">>)
Ck_abc == Ck(<<"a","b","c">>)
Ck_7_3 == Ck(<<"7","-","3">>)
Ck_empty == Ck(<<>>)
Entry_runs == <<"r","u","n","s">>

\* What hf_out can hold when the process starts: nothing, an entry that is no
\* checkpoint, checkpoints with one or several "-", two names with the same
\* number, and names whose suffix is no integer.
RunListings ==
    { {}, {Entry_runs}, {Ck_5}, {Ck_5, Ck_20}, {Ck_5, Ck_05, Entry_runs},
      {Ck_20, Ck_7_3}, {Ck_5, Ck_20, Ck_abc}, {Ck_empty} }

\* The sort key  int(n.split("-")[-1]) if "-" in n else -1 : it raises
\* ValueError exactly when n has a "-" and its last field is no int literal.
KeyRaises(n) == Occurs("-", n) /\ ~IntParses(LastField(n))
SortKey(n) == IF Occurs("-", n) THEN PyInt(LastField(n)) ELSE -1

\* list.sort(key=...) is stable and ascending: insert each element behind
\* the elements whose key is not greater.
RECURSIVE InsertByKey(_, _)
InsertByKey(sorted, x) ==
    IF sorted = <<>> THEN <<x>>
    ELSE IF SortKey(sorted[Len(sorted)]) <= SortKey(x) THEN Append(sorted, x)
    ELSE Append(InsertByKey(SubSeq(sorted, 1, Len(sorted) - 1), x), sorted[Len(sorted)])
RECURSIVE SortByKey(_)
SortByKey(l) ==
    IF l = <<>> THEN <<>>
    ELSE InsertByKey(SortByKey(SubSeq(l, 1, Len(l) - 1)), l[Len(l)])

\* os.listdir returns the entries in arbitrary order.
ListDirOrders(entries) ==
    {l \in [1..Cardinality(entries) -> entries] :
        \A i, j \in 1..Cardinality(entries) : i # j => l[i] # l[j]}

\* [d for d in listing if d.startswith("checkpoint-")]
CheckpointEntries(listing) == SelectSeq(listing, LAMBDA d : StartsWith(d, CheckpointPrefix))

\* ------------------------------------------------------------ the run
VARIABLES
    argv,            \* sys.argv, as the flags that matter
    yaml,            \* what the --config file holds
    fs,              \* the output directories and their files
    fs0,             \* fs when the process started
    pc,              \* position in main / __main__
    data_path,       \* locals of main
    outdir,
    base_model_raw,
    base_model,
    ckpt,            \* <<>> is None; a found checkpoint is never the empty name
    train_call,      \* how trainer.train was called
    exc,             \* message of the exception in flight
    rc,              \* what main returned
    status,          \* exit status of the process
    handler          \* what the except block of __main__ did, once entered

vars == <<argv, yaml, fs, fs0, pc, data_path, outdir, base_model_raw, base_model,
          ckpt, train_call, exc, rc, status, handler>>

\* argparse default of --outdir, the value given on the command line, and
\* the output_dir a config file names.
DefaultOutdir == "artifacts"
FlagOutdir == "outA"
YamlOutdir == "outB"
Dirs == {DefaultOutdir, FlagOutdir, YamlOutdir}

\* argparse default of --base.
DefaultBase == Repo_Llama32_1B
Str_custom == <<"c","u","s","t","o","m","/","m","o","d","e","l","-","i","d">>

\* Files that os.path.exists finds.
ExistingFiles == {"data.jsonl"}

\* choices of --resume
ResumeChoices == {"auto", "never", "force"}

\* A command line argparse accepts, with nothing but --data.
QuietArgv ==
    [config |-> None, data |-> "data.jsonl", base |-> DefaultBase,
     outdir_form |-> "absent", resume |-> "auto"]

\* Exit status of argparse's error().
ArgparseErrorStatus == 2

\* --outdir is "separate" (--outdir outA), "joined" (--outdir=outA) or absent.
Argvs ==
    [ config : {None, "cfg.yaml"},
      data : {None, "missing.jsonl", "data.jsonl"},
      base : {DefaultBase, Key_llama3_8b, Str_custom},
      outdir_form : {"absent", "separate", "joined"},
      resume : ResumeChoices ]
    \cup {[QuietArgv EXCEPT !.resume = "sometimes"]}

\* A config file: unreadable, empty, or overriding the flags.
Yamls ==
    { [loads |-> FALSE, dataset_path |-> None, base_model |-> <<>>, has_output_dir |-> FALSE],
      [loads |-> TRUE, dataset_path |-> None, base_model |-> <<>>, has_output_dir |-> FALSE],
      [loads |-> TRUE, dataset_path |-> "data.jsonl", base_model |-> Key_qwen25_05b,
       has_output_dir |-> TRUE],
      [loads |-> TRUE, dataset_path |-> "", base_model |-> <<>>, has_output_dir |-> TRUE] }

AbsentDir ==
    [ exists |-> FALSE, adapter |-> FALSE, config |-> "absent", config_base |-> <<>>,
      modelfile |-> "absent", modelfile_from |-> <<>>, errtxt |-> <<>>,
      hf_out |-> FALSE, entries |-> {} ]

ErrTexts == UNION {[1..n -> {"earlier failure"}] : n \in 0..MaxErrLines}

\* What an output directory can hold when the process starts: the artifacts
\* (weight file, descriptor, Modelfile) of an earlier run, or the error.txt
\* of one that failed, and the entries of hf_out.
PriorArtifacts ==
    { <<<<FALSE, FALSE, FALSE>>, e>> : e \in ErrTexts } \cup
    { <<<<TRUE, TRUE, TRUE>>, <<>>>>, <<<<TRUE, FALSE, FALSE>>, <<>>>> }
PriorDirs ==
    {AbsentDir} \cup
    { [ exists |-> TRUE, adapter |-> p[1][1],
        config |-> IF p[1][2] THEN "prior" ELSE "absent", config_base |-> <<>>,
        modelfile |-> IF p[1][3] THEN "prior" ELSE "absent", modelfile_from |-> <<>>,
        errtxt |-> p[2], hf_out |-> TRUE, entries |-> l ] :
        p \in PriorArtifacts, l \in RunListings } \cup
    { [AbsentDir EXCEPT !.exists = TRUE] }

RunStart ==
    /\ pc = "parse"
    /\ data_path = None /\ outdir = None
    /\ base_model_raw = <<>> /\ base_model = <<>>
    /\ ckpt = <<>> /\ train_call = "none"
    /\ exc = "" /\ rc = -1 /\ status = -1
    /\ handler = "not entered"

Init ==
    /\ argv \in Argvs
    /\ yaml \in Yamls
    /\ (argv.config = None => yaml = CHOOSE y \in Yamls : ~y.loads)
    /\ \E d \in PriorDirs : fs = [x \in Dirs |-> d]
    /\ fs0 = fs
    /\ RunStart

Raise(msg) ==
    /\ pc' = "raised"
    /\ exc' = msg

Return(code) ==
    /\ pc' = "returned"
    /\ rc' = code

ArgsOutdir == IF argv.outdir_form = "absent" THEN DefaultOutdir ELSE FlagOutdir

\* x or y, for str-or-None values
OrElse(x, y) == IF x \in {None, ""} THEN y ELSE x

\* main, lines 101-114.  parse_args ends the process with SystemExit(2) on
\* a command line it rejects; SystemExit is no Exception, so the except
\* block of __main__ lets it pass.  (The numeric options are not modelled.)
ParseArgs ==
    /\ pc = "parse"
    /\ \/ /\ argv.resume \notin ResumeChoices
          /\ pc' = "exited"
          /\ status' = ArgparseErrorStatus
          /\ UNCHANGED <<data_path, outdir, base_model_raw, exc>>
       \/ /\ argv.resume \in ResumeChoices
          /\ argv.config # None
          /\ ~yaml.loads
          /\ Raise("config file")
          /\ UNCHANGED <<data_path, outdir, base_model_raw, status>>
       \/ /\ argv.resume \in ResumeChoices
          /\ argv.config # None
          /\ yaml.loads
          /\ data_path' = OrElse(yaml.dataset_path, argv.data)
          /\ base_model_raw' = PyStrip(IF yaml.base_model # <<>> THEN yaml.base_model ELSE argv.base)
          /\ outdir' = IF yaml.has_output_dir THEN YamlOutdir ELSE ArgsOutdir
          /\ pc' = "normalize"
          /\ UNCHANGED <<exc, status>>
       \/ /\ argv.resume \in ResumeChoices
          /\ argv.config = None
          /\ data_path' = argv.data
          /\ base_model_raw' = PyStrip(argv.base)
          /\ outdir' = ArgsOutdir
          /\ pc' = "normalize"
          /\ UNCHANGED <<exc, status>>
    /\ UNCHANGED <<argv, yaml, fs, fs0, base_model, ckpt, train_call, rc, handler>>

\* main, line 117
Normalize ==
    /\ pc = "normalize"
    /\ base_model' = normalize_base_model_id(base_model_raw)
    /\ pc' = "check_data"
    /\ UNCHANGED <<argv, yaml, fs, fs0, data_path, outdir, base_model_raw, ckpt, train_call,
                   exc, rc, status, handler>>

MkDir(d) == [d EXCEPT !.exists = TRUE]
MkHfOut(d) == [d EXCEPT !.exists = TRUE, !.hf_out = TRUE]

DatasetMissing == data_path \in {None, ""} \/ data_path \notin ExistingFiles

\* Mutant: the directories are made before the dataset is looked for.
CheckDataset_dirs_first ==
    /\ pc = "check_data"
    /\ fs' = [fs EXCEPT ![outdir] = MkHfOut(@)]
    /\ IF DatasetMissing THEN Return(1) ELSE pc' = "tokenizer" /\ UNCHANGED rc
    /\ UNCHANGED <<argv, yaml, fs0, data_path, outdir, base_model_raw, base_model, ckpt,
                   train_call, exc, status, handler>>

\* main, lines 124-130
CheckDataset ==
    /\ pc = "check_data"
    /\ \/ /\ DatasetMissing
          /\ Return(1)
          /\ UNCHANGED <<fs, exc>>
       \/ /\ ~DatasetMissing
          /\ fs' = [fs EXCEPT ![outdir] = MkHfOut(@)]
          /\ pc' = "tokenizer"
          /\ UNCHANGED <<rc, exc>>
       \/ /\ ~DatasetMissing
          /\ fs' \in {fs, [fs EXCEPT ![outdir] = MkDir(@)]}
          /\ Raise("makedirs")
          /\ UNCHANGED rc
    /\ UNCHANGED <<argv, yaml, fs0, data_path, outdir, base_model_raw, base_model, ckpt,
                   train_call, status, handler>>

\* A step of main that calls into a library: it returns or it raises.
LibraryStep(here, next, msg) ==
    /\ pc = here
    /\ \/ pc' = next /\ UNCHANGED exc
       \/ Raise(msg)
    /\ UNCHANGED <<argv, yaml, fs, fs0, data_path, outdir, base_model_raw, base_model, ckpt,
                   train_call, rc, status, handler>>

\* main, lines 147-167
LoadTokenizer == LibraryStep("tokenizer", "dataset", "tokenizer")
\* main, lines 169-170
BuildDataset == LibraryStep("dataset", "model", "dataset")
\* main, lines 172-185
LoadModel == LibraryStep("model", "lora", "model")
\* main, lines 187-193
ApplyLora == LibraryStep("lora", "locate", "peft")

\* main, lines 219-224: the result of the scan over one listing of hf_out.
\* raises: the sort's key function raised ValueError; ckpt: ckpts[-1] or None.
LatestCheckpoint(listing) ==
    LET ckpts == CheckpointEntries(listing)
    IN  IF ckpts = <<>> THEN [raises |-> FALSE, ckpt |-> <<>>]
        ELSE IF \E i \in 1..Len(ckpts) : KeyRaises(ckpts[i])
             THEN [raises |-> TRUE, ckpt |-> <<>>]
        ELSE [raises |-> FALSE, ckpt |-> SortByKey(ckpts)[Len(ckpts)]]

\* main, lines 195-224
LocateCheckpoint ==
    /\ pc = "locate"
    /\ \/ /\ Raise("trainer")
          /\ UNCHANGED ckpt
       \/ \E listing \in ListDirOrders(IF fs[outdir].hf_out THEN fs[outdir].entries ELSE {}) :
              LET found == LatestCheckpoint(listing)
              IN  IF found.raises
                  THEN Raise("invalid literal for int()") /\ UNCHANGED ckpt
                  ELSE ckpt' = found.ckpt /\ pc' = "train" /\ UNCHANGED exc
    /\ UNCHANGED <<argv, yaml, fs, fs0, data_path, outdir, base_model_raw, base_model,
                   train_call, rc, status, handler>>

\* Mutant: --resume never is honoured and starts from scratch.
TrainCall_honours_never(c) == IF c # <<>> /\ argv.resume # "never" THEN "resume" ELSE "scratch"

\* main, lines 226-230: if ckpt: train(resume_from_checkpoint=ckpt) else: train()
TrainCall(c) == IF c # <<>> THEN "resume" ELSE "scratch"

\* Checkpoints the trainer can leave behind (save_strategy="epoch").
TrainerWrites == {{}, {Ck_20}}

\* main, lines 226-230
Train ==
    /\ pc = "train"
    /\ train_call' = TrainCall(ckpt)
    /\ \E wrote \in TrainerWrites : fs' = [fs EXCEPT ![outdir].entries = @ \cup wrote]
    /\ \/ pc' = "save" /\ UNCHANGED exc
       \/ Raise("train")
    /\ UNCHANGED <<argv, yaml, fs0, data_path, outdir, base_model_raw, base_model, ckpt,
                   rc, status, handler>>

\* main, lines 232-233: save_pretrained writes the weight file and the
\* descriptor, or only some of them, or raises.
SaveAdapter ==
    /\ pc = "save"
    /\ \/ /\ \E weights, descriptor \in BOOLEAN :
                fs' = [fs EXCEPT ![outdir].adapter = @ \/ weights,
                                 ![outdir].config = IF descriptor THEN "save_pretrained" ELSE @]
          /\ pc' = "export"
          /\ UNCHANGED exc
       \/ /\ Raise("save_pretrained")
          /\ UNCHANGED fs
    /\ UNCHANGED <<argv, yaml, fs0, data_path, outdir, base_model_raw, base_model, ckpt,
                   train_call, rc, status, handler>>

\* main, lines 241-251
WriteFallback(d) ==
    IF d.config = "absent"
    THEN [d EXCEPT !.config = "fallback", !.config_base = base_model]
    ELSE d

\* main, line 257: 'FROM llama3:8b\n'
ModelfileFrom == Key_llama3_8b

\* main, lines 254-263
WriteModelfile(d) == [d EXCEPT !.modelfile = "written", !.modelfile_from = ModelfileFrom]

\* Mutant: the weight file is not verified.
AdapterMissing_unchecked(d) == FALSE

\* main, line 238
AdapterMissing(d) == ~d.adapter

\* Mutant: the descriptor is synthesized before the weight file is verified.
Export_fallback_first ==
    /\ pc = "export"
    /\ fs' = [fs EXCEPT ![outdir] =
                IF AdapterMissing(@) THEN WriteFallback(@) ELSE WriteModelfile(WriteFallback(@))]
    /\ Return(IF AdapterMissing(fs[outdir]) THEN 1 ELSE 0)
    /\ UNCHANGED <<argv, yaml, fs0, data_path, outdir, base_model_raw, base_model, ckpt,
                   train_call, exc, status, handler>>

\* main, lines 236-266
Export ==
    /\ pc = "export"
    /\ \/ /\ AdapterMissing(fs[outdir])
          /\ Return(1)
          /\ UNCHANGED <<fs, exc>>
       \/ /\ ~AdapterMissing(fs[outdir])
          /\ fs' = [fs EXCEPT ![outdir] = WriteModelfile(WriteFallback(@))]
          /\ Return(0)
          /\ UNCHANGED exc
       \/ /\ ~AdapterMissing(fs[outdir])
          /\ fs' \in {fs, [fs EXCEPT ![outdir] = WriteFallback(@)]}
          /\ Raise("open")
          /\ UNCHANGED rc
    /\ UNCHANGED <<argv, yaml, fs0, data_path, outdir, base_model_raw, base_model, ckpt,
                   train_call, status, handler>>

\* __main__, line 270: sys.exit(main()); SystemExit is no Exception, so the
\* except block is not entered.
SysExit ==
    /\ pc = "returned"
    /\ pc' = "exited"
    /\ status' = rc
    /\ UNCHANGED <<argv, yaml, fs, fs0, data_path, outdir, base_model_raw, base_model, ckpt,
                   train_call, exc, rc, handler>>

\* Mutant: the marker goes to the directory main resolved.
MarkerDir_resolved == {d \in Dirs : d = outdir}

\* __main__, lines 275-280: the directory found by scanning sys.argv for the
\* token "--outdir" followed by a value; no directory otherwise.
MarkerDir == IF argv.outdir_form = "separate" THEN {FlagOutdir} ELSE {}

\* Exit status of an uncaught exception.
UncaughtStatus == 1

\* Mutant: the handler starts main again instead of ending the process.
Handler_retries ==
    /\ pc = "raised"
    /\ handler' = "no outdir"
    /\ pc' = "parse"
    /\ UNCHANGED <<argv, yaml, fs, fs0, data_path, outdir, base_model_raw, base_model, ckpt,
                   train_call, exc, rc, status>>

\* __main__, lines 271-286
Handler ==
    /\ pc = "raised"
    /\ \/ /\ MarkerDir = {}
          /\ handler' = "no outdir"
          /\ fs' = fs
       \/ /\ \E d \in MarkerDir :
                fs' = [fs EXCEPT ![d] = [MkDir(@) EXCEPT !.errtxt = Append(@, exc)]]
          /\ handler' = "appended"
       \/ /\ MarkerDir # {}
          /\ handler' = "write failed"     \* makedirs or open raised: swallowed
          /\ \E d \in MarkerDir : fs' \in {fs, [fs EXCEPT ![d] = MkDir(@)]}
    /\ pc' = "exited"
    /\ status' = UncaughtStatus
    /\ UNCHANGED <<argv, yaml, fs0, data_path, outdir, base_model_raw, base_model, ckpt,
                   train_call, exc, rc>>

Next ==
    \/ ParseArgs
    \/ Normalize
    \/ CheckDataset
    \/ LoadTokenizer
    \/ BuildDataset
    \/ LoadModel
    \/ ApplyLora
    \/ LocateCheckpoint
    \/ Train
    \/ SaveAdapter
    \/ Export
    \/ SysExit
    \/ Handler

Spec == Init /\ [][Next]_vars

\* ------------------------------------- normalize_base_model_id, alone
Str_Llama3_8B_mixed == <<"L","l","a","m","a","3",":","8","B">>

InsertAt(s, i, c) == SubSeq(s, 1, i) \o <<c>> \o SubSeq(s, i + 1, Len(s))

NormBases == AliasKeys \cup {Str_custom, Str_Llama3_8B_mixed, Repo_Llama32_1B, <<>>}
NormCores ==
    NormBases
    \cup {PyUpper(b) : b \in NormBases}
    \cup UNION {{InsertAt(b, i, " ") : i \in 1..(Len(b) - 1)} : b \in NormBases}
    \cup UNION {{InsertAt(b, i, "\t") : i \in 1..(Len(b) - 1)} : b \in {Key_llama3_8b, Str_custom}}
Pads == UNION {[1..n -> {" ", "\t"}] : n \in 0..MaxPad}
NormInputs == {l \o c \o r : l \in Pads, c \in NormCores, r \in Pads}

\* The function is applied to every input of NormInputs.
InitNorm ==
    /\ argv = QuietArgv
    /\ yaml = CHOOSE y \in Yamls : ~y.loads
    /\ fs = [x \in Dirs |-> AbsentDir]
    /\ fs0 = fs
    /\ pc = "normalize"
    /\ data_path = "data.jsonl" /\ outdir = DefaultOutdir
    /\ base_model_raw \in NormInputs /\ base_model = <<>>
    /\ ckpt = <<>> /\ train_call = "none"
    /\ exc = "" /\ rc = -1 /\ status = -1
    /\ handler = "not entered"

NextNorm == Normalize

SpecNorm == InitNorm /\ [][NextNorm]_vars

\* ---------------------------------------------------------- properties
\* The entries of a directory whose name begins with "checkpoint-".
CheckpointNames(d) == {n \in d.entries : d.hf_out /\ StartsWith(n, CheckpointPrefix)}

\* n is ordered no higher than m: by integer suffix, a name without one
\* below every name with one.
HasNumber(n) == IntParses(LastField(n))
NotAbove(n, m) ==
    \/ ~HasNumber(n)
    \/ HasNumber(m) /\ PyInt(LastField(n)) <= PyInt(LastField(m))

IsLatestOf(c, names) == c \in names /\ \A n \in names : NotAbove(n, c)

\* C1: once the scan of hf_out has run, it has not failed on a name, and
\* when hf_out holds checkpoint entries the selected one carries the maximum
\* integer suffix, names without an integer suffix ranking lowest; for
\* checkpoint-5, checkpoint-20 and checkpoint-abc it is checkpoint-20.
C1_LatestCheckpointSelected ==
    /\ exc # "invalid literal for int()"
    /\ pc = "train" =>
         /\ CheckpointNames(fs[outdir]) # {} => IsLatestOf(ckpt, CheckpointNames(fs[outdir]))
         /\ CheckpointNames(fs[outdir]) = {} => ckpt = <<>>
    /\ (pc \in {"train", "raised"} /\ exc \in {"", "invalid literal for int()"}
          /\ fs[outdir].entries = {Ck_5, Ck_20, Ck_abc}) => ckpt = Ck_20

\* main has resolved its configuration.
PathResolved == outdir # None

\* C2: with a resolved dataset path that is empty or names no file, the run
\* goes no further than the dataset check, main returns 1, and the
\* filesystem is what it was when the process started; nothing is created
\* before the check either.
C2_MissingDatasetCreatesNothing ==
    /\ pc \in {"parse", "normalize", "check_data"} => fs = fs0
    /\ (PathResolved /\ DatasetMissing /\ pc \notin {"normalize", "check_data"}) =>
         /\ pc \in {"returned", "exited"}
         /\ rc = 1
         /\ fs = fs0
         /\ train_call = "none"
         /\ pc = "exited" => status = 1

C2_Witness ==
    /\ pc = "exited" /\ status = 1
    /\ data_path = "missing.jsonl"
    /\ ~fs[outdir].exists

\* error.txt of some directory gained a line during the run.
MarkerAppended == \E d \in Dirs : Len(fs[d].errtxt) = Len(fs0[d].errtxt) + 1

\* C3 as stated: every run that ended with a non-zero status passed through
\* the top-level handler and appended to error.txt.
C3_AllFailuresThroughHandler ==
    (pc = "exited" /\ status # 0) => (handler # "not entered" /\ MarkerAppended)

\* C3 amended: a run that ended on an Exception passed through the handler
\* and has a non-zero status; a run that ended on a return of main (or on
\* argparse's SystemExit) did not pass through it, exits with main's return
\* value (argparse's status) and leaves every error.txt as it was; a line is appended only by the handler and only
\* when the command line holds --outdir followed by its value.
C3_HandlerOnlyOnExceptions ==
    /\ (pc = "exited" /\ exc # "") => (handler # "not entered" /\ status # 0)
    /\ (pc = "exited" /\ exc = "") =>
         /\ handler = "not entered"
         /\ status \in {rc, ArgparseErrorStatus}
         /\ rc = 1 => status = 1
         /\ \A d \in Dirs : fs[d].errtxt = fs0[d].errtxt
    /\ (\E d \in Dirs : fs[d].errtxt # fs0[d].errtxt) =>
         /\ handler = "appended"
         /\ argv.outdir_form = "separate"
         /\ fs[FlagOutdir].errtxt = Append(fs0[FlagOutdir].errtxt, exc)

C3_Witness ==
    /\ pc = "exited" /\ status = 1 /\ rc = 1
    /\ train_call # "none"
    /\ handler = "not entered"
    /\ argv.outdir_form = "separate"

\* C4: a run that ended on an exception raised after the output directory
\* was resolved has the message appended to error.txt of that directory,
\* earlier lines kept, and a non-zero status (unless the write itself was
\* attempted and failed).
C4_MarkerInResolvedOutdir ==
    (pc = "exited" /\ exc \notin {"", "config file"} /\ handler # "write failed") =>
        /\ fs[outdir].errtxt = Append(fs0[outdir].errtxt, exc)
        /\ status # 0

\* C5: when main has returned 0 the output directory holds the weight
\* file, a descriptor and the Modelfile; the export step synthesizes the
\* descriptor from the resolved base model when it is missing and leaves a
\* present one as it is.
C5_ArtifactsOnSuccess ==
    /\ [](rc = 0 =>
            /\ fs[outdir].adapter
            /\ fs[outdir].config # "absent"
            /\ fs[outdir].modelfile = "written")
    /\ [][(pc = "export" /\ rc' = 0) =>
            IF fs[outdir].config = "absent"
            THEN fs'[outdir].config = "fallback" /\ fs'[outdir].config_base = base_model
            ELSE /\ fs'[outdir].config = fs[outdir].config
                 /\ fs'[outdir].config_base = fs[outdir].config_base]_vars

C5_Witness ==
    /\ pc = "exited" /\ status = 0
    /\ fs[outdir].config = "fallback"
    /\ fs[outdir].config_base = Repo_Qwen25_05B
    /\ fs[outdir].adapter /\ fs[outdir].modelfile = "written"

\* C6: when the export step finds no weight file, main returns 1 and the
\* step writes nothing: no descriptor is synthesized and the Modelfile is
\* not touched, whatever else the directory holds; the process then exits 1.
C6_MissingAdapterIsFatal ==
    /\ [][(pc = "export" /\ ~fs[outdir].adapter) =>
            (pc' = "returned" /\ rc' = 1 /\ fs' = fs)]_vars
    /\ []((pc = "exited" /\ rc = 1) => status = 1)

C6_Witness ==
    /\ pc = "exited" /\ status = 1
    /\ train_call # "none"
    /\ ~fs[outdir].adapter
    /\ fs[outdir].config = "save_pretrained"
    /\ fs[outdir].modelfile = "absent"
    /\ CheckpointNames(fs[outdir]) # {}

\* C7: a run that has called the trainer resumed from the checkpoint with
\* the highest number among those hf_out held when the process started, and
\* started from scratch when it held none, whatever --resume says.
C7_ResumeFromLatest ==
    train_call # "none" =>
        /\ CheckpointNames(fs0[outdir]) # {} =>
             (train_call = "resume" /\ IsLatestOf(ckpt, CheckpointNames(fs0[outdir])))
        /\ CheckpointNames(fs0[outdir]) = {} => (train_call = "scratch" /\ ckpt = <<>>)

C7_Witness ==
    /\ train_call = "resume"
    /\ argv.resume = "never"
    /\ ckpt = Ck_20
    /\ Ck_5 \in fs0[outdir].entries

\* C8: after a return of 0 the model the Modelfile declares is the resolved
\* base model of the run (a tag of the alias table counts as the repository
\* it stands for).
C8_ManifestDeclaresBaseModel ==
    rc = 0 => normalize_base_model_id(fs[outdir].modelfile_from) = base_model

\* C9: the result for input s is the alias table's value for the key made
\* by trimming s, removing its spaces and lowercasing, when that key is in
\* the table, and s with only the surrounding whitespace trimmed otherwise;
\* "Llama3:8B" gives the Meta-Llama-3-8B-Instruct repository and
\* "custom/model-id" comes back unchanged.
C9_NormalizeContract ==
    pc = "check_data" =>
        LET s == base_model_raw
            key == PyLower(RemoveSpaces(PyStrip(s)))
        IN  /\ \A a \in aliases : a[1] = key => base_model = a[2]
            /\ (\A a \in aliases : a[1] # key) => base_model = PyStrip(s)
            /\ s = Str_Llama3_8B_mixed => base_model = Repo_Llama3_8B
            /\ s = Str_custom => base_model = Str_custom

C9_Witness ==
    /\ pc = "check_data"
    /\ base_model_raw = <<" ">> \o InsertAt(Str_Llama3_8B_mixed, 5, " ") \o <<"\t">>
    /\ base_model = Repo_Llama3_8B

\* The state of the run's state machine at a position of main.
Phase ==
    CASE pc \in {"parse", "normalize", "check_data", "tokenizer"} -> "NOT_STARTED"
      [] pc = "dataset" -> "TOKENIZER_LOADED"
      [] pc = "model" -> "DATASET_READY"
      [] pc = "lora" -> "MODEL_LOADED"
      [] pc = "locate" -> "ADAPTER_APPLIED"
      [] pc \in {"train", "save", "export"} -> "TRAINING"
      [] pc = "raised" -> "FAILED"
      [] pc \in {"returned", "exited"} -> IF rc = 0 THEN "COMPLETE" ELSE "FAILED"

PhaseOrder ==
    <<"NOT_STARTED", "TOKENIZER_LOADED", "DATASET_READY", "MODEL_LOADED",
      "ADAPTER_APPLIED", "TRAINING", "COMPLETE">>
Terminal == {"COMPLETE", "FAILED"}

PhaseStep ==
    \/ Phase' = Phase
    \/ /\ Phase \notin Terminal
       /\ \/ Phase' = "FAILED"
          \/ IndexIn(Phase', PhaseOrder) = IndexIn(Phase, PhaseOrder) + 1

\* The last position of main in each non-terminal state.
LastPosition == {"tokenizer", "dataset", "model", "lora", "locate", "train"}

\* C10: the state changes only to the next state of the order or, from a
\* non-terminal state, to FAILED; COMPLETE is entered only from TRAINING
\* after the trainer was called; every non-terminal state has a step to
\* FAILED; FAILED and COMPLETE are never left.
C10_StateMachine ==
    /\ [][PhaseStep]_vars
    /\ [][(Phase # "COMPLETE" /\ Phase' = "COMPLETE") =>
            (Phase = "TRAINING" /\ train_call # "none")]_vars
    /\ [](pc \in LastPosition => ENABLED (Next /\ Phase' = "FAILED"))

C10_Witness ==
    /\ pc = "exited" /\ status = 0
    /\ Phase = "COMPLETE"
    /\ train_call = "resume"

====
